---- MODULE Spec2Model ----
(***************************************************************************)
(* Axofuego fire control: the Poofer channel (fire/channel.py), the        *)
(* PyroEngine (fire/engine.py), the WebSocket handlers (web/server.py) and *)
(* the PatternEngine (pattern/engine.py).                                  *)
(*                                                                         *)
(* Threads.  Poofer methods are called by caller threads that take the     *)
(* channel's threading.Lock; every threading.Timer started by fire() runs  *)
(* Poofer._stop_fire in a thread of its own WITHOUT the lock.  Each Python *)
(* statement that reads or writes a shared attribute is one step, so the   *)
(* data race between a timer thread and a lock holder is explored          *)
(* statement by statement.                                                 *)
(*                                                                         *)
(* Time.  `now` is time.time() in whole units.  The clock advances only    *)
(* when no thread is inside a method and no timer is due: code runs in     *)
(* zero time, timers fire on time (timer quantization is the only slack).  *)
(***************************************************************************)
EXTENDS Integers, Sequences, FiniteSets, TLC

\* ------------------------------------------------------------------ bounds
MaxDuration == 2      \* Poofer.max_duration (config.safety.max_fire_duration), in time units
MaxTime     == 3      \* the clock stops advancing here
MaxTimers   == 2      \* threading.Timer objects a run creates
SeqReps     == 2      \* repetitions of an _ignition_timer task
MaxTicks    == 2      \* length_ticks of a pattern
MaxEvents   == 2      \* events of a Pattern
MaxLost     == 1      \* playback tasks that play() may leave behind alive
EngineTime  == 1      \* the clock of the larger specifications stops here

\* ------------------------------------------------------------ the channels
PooferIds == {1, 2}            \* PyroEngine.poofers: channel id -> Poofer
Callers   == {1}               \* the thread calling Poofer methods: the event loop
Timers    == 1..(MaxTimers + 1)  \* identities of threading.Timer objects

\* An Optional value is the empty set (None) or a singleton.
None      == {}
Some(x)   == {x}
TheVal(s) == CHOOSE x \in s : TRUE

\* fire(duration=None): the argument is absent (<<>>) or a number (<<d>>)
DurationArgs == {<<>>} \cup {<<d>> : d \in (-1)..(MaxDuration + 1)}

Min(a, b) == IF a <= b THEN a ELSE b

VARIABLES
    \* Poofer attributes, per channel
    isActive,       \* _is_active
    endTime,        \* _end_time: None or Some(t)
    timer,          \* _timer: None or Some(timer id)
    lock,           \* _lock: None or Some(caller holding it)
    pin,            \* gpio_interface._pins[gpio_pin]: TRUE = energized
    \* threading.Timer objects
    tmState,        \* "unused" | "created" | "cancelled" (before start) |
                    \* "waiting" | "running" (function called) | "done"
    tmDue,          \* time at which the interval elapses
    tmCh,           \* the channel whose _stop_fire the timer calls
    tpc,            \* statement of _stop_fire the timer thread is at
    tmLimit,        \* how many Timer objects this run may create (fixed at Init)
    horizon,        \* the time at which this run's clock stops (fixed at Init)
    recycle,        \* whether this run reclaims Timer objects that have ended
                    \* and that no channel refers to (fixed at Init)
    wfail,          \* the values v for which gpio_interface.set_pin(pin, v)
                    \* raises: fixed at Init, until gpio_interface.cleanup()
                    \* makes every write raise
    \* caller threads
    cpc,            \* statement the caller is at ("idle" between calls)
    cop,            \* the call in progress: [m, ch, arg]
    cres,           \* result of the last call: "true" | "false" | "exc" | "none"
    \* the clock
    now,
    \* history (read by properties only)
    pinSince,       \* time of the rising edge of an energized pin
    owed,           \* deadline of the last accepted pulse, None once stop() was called
    stolen,         \* a fire was accepted while an accepted pulse was still owed
    stale,          \* per Timer: stop() has returned True since the timer was made
    \* PyroEngine attributes
    emergencyStop,  \* _emergency_stop
    lastActivity,   \* _last_activity
    wdNext,         \* _safety_monitor_task: None, or Some(time its sleep ends)
    eop,            \* the engine call the event loop is running
    \* history (read by properties only)
    sinceCmd,       \* time since the last fire_poofer / fire_multiple call,
                    \* counted up to AutoShutoff + 1
    tripStops,      \* stop_all has been called since the latch was set
    tripDone,       \* emergency_stop() has returned and no reset came since
    \* WebServer connections
    hpc,            \* where the connection's handler is
    hep,            \* the endpoint it serves
    hend,           \* how the connection ended
    owner,          \* history: the connection whose fire a channel accepted last,
                    \* "-" from the next fire call on the channel until it is accepted
    \* WebServer: the sequence1 connection
    sconn,          \* the connection: "none" | "open" | "closed"
    spc,            \* _handle_sequence1: "new" | "running" (in gather) |
                    \* "pause" (in sleep(0.1)) | "failed" (left by an exception)
    stask,          \* per _ignition_timer task: where it is
    srep,           \* per _ignition_timer task: rep
    \* PatternEngine attributes
    pPattern,       \* _current_pattern: None or Some([len, loop])
    pPlaying,       \* _playing
    pTick,          \* _current_tick
    pTask,          \* _playback_task: "none" | "created" | "ended" (returned) |
                    \* "failed" (left by an exception) | "cancelled"
    pRun,           \* history: TRUE from an accepted play() of a loop=false
                    \* pattern at tick 0 until another method is called
    pLast,          \* history: the PatternEngine method called last
                    \* ("play_false": a play() that returned False)
    pStopAll,       \* history: the last call of stop() went on to
                    \* pyro_engine.stop_all()
    pSnap,          \* history: _current_pattern as it was when load_pattern
                    \* took it
    pLost,          \* playback tasks created earlier that have not ended and
                    \* that _playback_task no longer refers to
    \* a Pattern object and its serialization
    pat,            \* the Pattern: [name, events, length_ticks, loop]
    rt,             \* None, or Some(Pattern.from_dict(pat.to_dict()))
    \* KeypadHandler
    held,           \* the keys of the keypad that are down
    \* AxofuegoApp
    shpc            \* where main() is: "run" (start() waits for the shutdown
                    \* event), a step of shutdown(), "done" or "raised"

chanVars  == <<isActive, endTime, timer, pin, pinSince>>
histVars  == <<owed, stolen, stale>>
limits    == <<tmLimit, horizon, recycle, wfail>>
timerVars == <<tmState, tmDue, tmCh, tpc, limits>>
callVars  == <<cpc, cop, cres, lock, histVars>>
engVars   == <<emergencyStop, lastActivity, wdNext, eop, sinceCmd, tripStops, tripDone>>
connVars  == <<hpc, hep, hend, owner>>
seqVars   == <<sconn, spc, stask, srep>>
patVars   == <<pPattern, pPlaying, pTick, pTask, pRun, pLast, pStopAll, pSnap, pLost>>
dataVars  == <<pat, rt>>
keyVars   == <<held>>
mainVars  == <<shpc>>
appVars   == <<connVars, seqVars, patVars, dataVars, keyVars, mainVars>>
otherVars == <<chanVars, timerVars, callVars, now, engVars, connVars, seqVars, patVars,
               keyVars, mainVars>>
vars      == <<chanVars, timerVars, callVars, now, engVars, appVars>>

NoOp == [m |-> "none", ch |-> 1, arg |-> <<>>]

\* Poofer.__init__ and MockGPIO.setup_pin
InitPoofers ==
    /\ isActive = [c \in PooferIds |-> FALSE]
    /\ endTime = [c \in PooferIds |-> None]
    /\ timer = [c \in PooferIds |-> None]
    /\ lock = [c \in PooferIds |-> None]
    /\ pin = [c \in PooferIds |-> FALSE]
    /\ tmState = [k \in Timers |-> "unused"]
    /\ tmDue = [k \in Timers |-> 0]
    /\ tmCh = [k \in Timers |-> 1]
    /\ tpc = [k \in Timers |-> "-"]
    /\ cpc = [t \in Callers |-> "idle"]
    /\ cop = [t \in Callers |-> NoOp]
    /\ cres = [t \in Callers |-> "none"]
    /\ now = 0
    /\ pinSince = [c \in PooferIds |-> 0]
    /\ owed = [c \in PooferIds |-> None]
    /\ stolen = [c \in PooferIds |-> FALSE]
    /\ stale = [k \in Timers |-> FALSE]

\* ------------------------------------------------------------- pure parts
\* fire(): `if duration is None: duration = self.max_duration` and the clamp
\* `duration = min(duration, self.max_duration)`
EffectiveDuration(arg) ==
    IF arg = <<>> THEN MaxDuration ELSE Min(arg[1], MaxDuration)

\* MockGPIO.set_pin(pin, value), with the time of a rising edge remembered
SetPin(c, value) ==
    /\ pin' = [pin EXCEPT ![c] = value]
    /\ pinSince' = [pinSince EXCEPT ![c] = IF value /\ ~pin[c] THEN now
                                             ELSE IF value THEN @ ELSE 0]

\* threading.Timer.cancel() on the timers K (None or one timer): sets the
\* finished event.  A waiting timer's thread wakes and ends without calling
\* the function, a timer not yet started will end as soon as it is started, a
\* timer whose function has been called already is not affected.
AfterCancel(st, K) ==
    [k \in Timers |->
        IF k \notin K THEN st[k]
        ELSE CASE st[k] = "waiting" -> "done"
               [] st[k] = "created" -> "cancelled"
               [] OTHER -> st[k]]

InCall(t) == cpc[t] \notin {"idle", "ret"}

\* A Timer identity is free when no Timer object has it yet or, in a run that
\* recycles, when its object is garbage: no thread of it is left to run, no
\* channel refers to it and no fire call is about to start it
Free(k) ==
    \/ tmState[k] = "unused"
    \/ /\ recycle
       /\ tmState[k] \in {"done", "cancelled", "created"}
       /\ \A c \in PooferIds : k \notin timer[c]
       /\ \A t \in Callers : ~(cpc[t] = "f_start" /\ cop[t].ch = tmCh[k])

\* Timer objects in use, plus those the fire calls in progress will create
TimersClaimed ==
    Cardinality({k \in Timers : ~Free(k)})
    + Cardinality({t \in Callers : InCall(t) /\ cop[t].m = "fire"
                                   /\ cpc[t] \notin {"f_start"}})

\* Timer k was made by a fire on channel c and its thread has not ended
Pending(k, c, st) ==
    tmCh[k] = c /\ st[k] \in {"created", "waiting", "running"}

NewTimer == CHOOSE k \in Timers :
                /\ Free(k)
                /\ \A j \in Timers : Free(j) => k <= j

\* --------------------------------------------------- Poofer._stop_fire
\* One statement of _stop_fire on channel c: from statement `at` to
\* statement `to` ("sf_ret" = returned, "crash" = an exception raised:
\* AttributeError when the other thread has set _timer to None since the test,
\* or the exception of a failing set_pin).  The effect of
\* cancel() on the Timer object is StopFireCancels.
StopFireStmt(c, at, to) ==
    \/ /\ at = "sf_chk"                       \* if not self._is_active: return
       /\ to = (IF isActive[c] THEN "sf_act" ELSE "sf_ret")
       /\ UNCHANGED chanVars
    \/ /\ at = "sf_act"                       \* self._is_active = False
       /\ isActive' = [isActive EXCEPT ![c] = FALSE]
       /\ to = "sf_end"
       /\ UNCHANGED <<endTime, timer, pin, pinSince>>
    \/ /\ at = "sf_end"                       \* self._end_time = None
       /\ endTime' = [endTime EXCEPT ![c] = None]
       /\ to = "sf_tmr"
       /\ UNCHANGED <<isActive, timer, pin, pinSince>>
    \/ /\ at = "sf_tmr"                       \* if self._timer:
       /\ to = (IF timer[c] # None THEN "sf_cancel" ELSE "sf_pin")
       /\ UNCHANGED chanVars
    \/ /\ at = "sf_cancel"                    \* self._timer.cancel()
       /\ to = (IF timer[c] = None THEN "crash" ELSE "sf_none")
       /\ UNCHANGED chanVars
    \/ /\ at = "sf_none"                      \* self._timer = None
       /\ timer' = [timer EXCEPT ![c] = None]
       /\ to = "sf_pin"
       /\ UNCHANGED <<isActive, endTime, pin, pinSince>>
    \/ /\ at = "sf_pin"                       \* self.gpio_interface.set_pin(pin, False)
       /\ IF FALSE \in wfail
            THEN to = "crash" /\ UNCHANGED <<pin, pinSince>>
            ELSE to = "sf_ret" /\ SetPin(c, FALSE)
       /\ UNCHANGED <<isActive, endTime, timer>>

\* the interval of a timer matters only until the timer thread has woken
LiveDue(due, st) ==
    [k \in Timers |-> IF st[k] \in {"created", "cancelled", "waiting"} THEN due[k] ELSE 0]

\* a Timer is stale only as long as its thread can still run
LiveStale(s, st) ==
    [k \in Timers |-> s[k] /\ st[k] \in {"created", "waiting", "running"}]

\* the timers that the statement `at` of _stop_fire on channel c cancels
StopFireCancels(c, at) == IF at = "sf_cancel" THEN timer[c] ELSE None

StopFireLabels == {"sf_chk", "sf_act", "sf_end", "sf_tmr", "sf_cancel",
                   "sf_none", "sf_pin", "sf_ret", "crash"}

\* ------------------------------------------------------ the timer threads
\* threading.Timer.run: the interval has elapsed and finished is not set, so
\* the thread calls self.function, that is Poofer._stop_fire, without the lock
TimerExpire(k) ==
    /\ tmState[k] = "waiting"
    /\ now >= tmDue[k]
    /\ tmState' = [tmState EXCEPT ![k] = "running"]
    /\ tpc' = [tpc EXCEPT ![k] = "sf_chk"]
    /\ tmDue' = LiveDue(tmDue, tmState')
    /\ UNCHANGED <<chanVars, tmCh, limits, callVars, now>>

\* the timer thread executes one statement of _stop_fire
TimerStep(k) ==
    /\ tmState[k] = "running"
    /\ \E to \in StopFireLabels :
          /\ StopFireStmt(tmCh[k], tpc[k], to)
          /\ IF to \in {"sf_ret", "crash"}
               THEN /\ tmState' = [tmState EXCEPT ![k] = "done"]
                    /\ tpc' = [tpc EXCEPT ![k] = "-"]
               ELSE /\ tmState' = AfterCancel(tmState, StopFireCancels(tmCh[k], tpc[k]))
                    /\ tpc' = [tpc EXCEPT ![k] = to]
    /\ tmDue' = LiveDue(tmDue, tmState')
    /\ stale' = LiveStale(stale, tmState')
    /\ UNCHANGED <<tmCh, limits, cpc, cop, cres, lock, owed, stolen, now>>

\* ------------------------------------------------------ the caller threads
\* a call returns (result r) or raises (r = "exc"); `with self._lock` releases
Finish(t, r) ==
    /\ cpc' = [cpc EXCEPT ![t] = "ret"]
    /\ cres' = [cres EXCEPT ![t] = r]
    /\ lock' = [lock EXCEPT ![cop[t].ch] = None]
    /\ UNCHANGED cop

Goto(t, l) ==
    /\ cpc' = [cpc EXCEPT ![t] = l]
    /\ UNCHANGED <<cop, cres, lock>>

\* a thread calls fire(arg), stop() or is_active() on channel c
Call(t, m, c, arg) ==
    /\ cpc[t] = "idle"
    /\ m = "fire" => TimersClaimed < tmLimit
    /\ m # "fire" => arg = <<>>
    /\ cpc' = [cpc EXCEPT ![t] = "lock"]
    /\ cop' = [cop EXCEPT ![t] = [m |-> m, ch |-> c, arg |-> arg]]
    /\ owed' = IF m = "stop" THEN [owed EXCEPT ![c] = None] ELSE owed
    /\ UNCHANGED <<chanVars, timerVars, cres, lock, stolen, stale, now>>

\* `with self._lock:` of fire, stop and is_active
Acquire(t) ==
    /\ cpc[t] = "lock"
    /\ lock[cop[t].ch] = None
    /\ lock' = [lock EXCEPT ![cop[t].ch] = Some(t)]
    /\ cpc' = [cpc EXCEPT ![t] = CASE cop[t].m = "fire" -> "f_chk"
                                   [] cop[t].m = "stop" -> "s_chk"
                                   [] OTHER -> "a_chk"]
    /\ UNCHANGED <<chanVars, timerVars, cop, cres, histVars, now>>

\* fire: `if self._is_active: return False`
FireCheck(t) ==
    /\ cpc[t] = "f_chk"
    /\ IF isActive[cop[t].ch] THEN Finish(t, "false") ELSE Goto(t, "f_act")
    /\ stolen' = [stolen EXCEPT ![cop[t].ch] =
                     @ \/ (~isActive[cop[t].ch] /\ \E e \in owed[cop[t].ch] : now < e)]
    /\ UNCHANGED <<chanVars, timerVars, owed, stale, now>>

\* fire: `self._is_active = True`
FireSetActive(t) ==
    /\ cpc[t] = "f_act"
    /\ isActive' = [isActive EXCEPT ![cop[t].ch] = TRUE]
    /\ Goto(t, "f_end")
    /\ UNCHANGED <<endTime, timer, pin, pinSince, timerVars, now>>
    /\ UNCHANGED histVars

\* fire: `self._end_time = time.time() + duration`
FireSetEnd(t) ==
    /\ cpc[t] = "f_end"
    /\ endTime' = [endTime EXCEPT ![cop[t].ch] =
                      Some(now + EffectiveDuration(cop[t].arg))]
    /\ Goto(t, "f_tmr")
    /\ owed' = [owed EXCEPT ![cop[t].ch] = Some(now + EffectiveDuration(cop[t].arg))]
    /\ UNCHANGED <<isActive, timer, pin, pinSince, timerVars, stolen, stale, now>>

\* fire: `if self._timer:`
FireTimerTest(t) ==
    /\ cpc[t] = "f_tmr"
    /\ Goto(t, IF timer[cop[t].ch] # None THEN "f_cancel" ELSE "f_pin")
    /\ UNCHANGED <<chanVars, timerVars, now>>
    /\ UNCHANGED histVars

\* fire: `self._timer.cancel()`; AttributeError when a timer thread has set
\* _timer to None since the test
FireCancel(t) ==
    /\ cpc[t] = "f_cancel"
    /\ IF timer[cop[t].ch] = None
         THEN Finish(t, "exc") /\ UNCHANGED tmState
         ELSE /\ tmState' = AfterCancel(tmState, timer[cop[t].ch])
              /\ Goto(t, "f_pin")
    /\ tmDue' = LiveDue(tmDue, tmState')
    /\ stale' = LiveStale(stale, tmState')
    /\ UNCHANGED <<chanVars, tmCh, limits, tpc, now>>
    /\ UNCHANGED <<owed, stolen>>

\* fire: `self.gpio_interface.set_pin(self.gpio_pin, True)`; the exception
\* of a failing set_pin leaves fire
FirePin(t) ==
    /\ cpc[t] = "f_pin"
    /\ IF TRUE \in wfail
         THEN Finish(t, "exc") /\ UNCHANGED <<pin, pinSince>>
         ELSE SetPin(cop[t].ch, TRUE) /\ Goto(t, "f_new")
    /\ UNCHANGED <<isActive, endTime, timer, timerVars, now>>
    /\ UNCHANGED histVars

\* fire: `self._timer = threading.Timer(duration, self._stop_fire)`
FireNewTimer(t) ==
    /\ cpc[t] = "f_new"
    /\ LET k == NewTimer IN
         /\ tmState' = [tmState EXCEPT ![k] = "created"]
         /\ tmDue' = [tmDue EXCEPT ![k] = now + EffectiveDuration(cop[t].arg)]
         /\ tmCh' = [tmCh EXCEPT ![k] = cop[t].ch]
         /\ timer' = [timer EXCEPT ![cop[t].ch] = Some(k)]
         /\ stale' = [stale EXCEPT ![k] = FALSE]
    /\ Goto(t, "f_start")
    /\ UNCHANGED <<isActive, endTime, pin, pinSince, tpc, limits, now>>
    /\ UNCHANGED <<owed, stolen>>

\* fire: `self._timer.start()` then `return True`; AttributeError when a timer
\* thread has set _timer to None since the assignment
FireStart(t) ==
    /\ cpc[t] = "f_start"
    /\ IF timer[cop[t].ch] = None
         THEN Finish(t, "exc") /\ UNCHANGED tmState
         ELSE /\ tmState' = [tmState EXCEPT ![TheVal(timer[cop[t].ch])] =
                                 IF @ = "created" THEN "waiting" ELSE "done"]
              /\ Finish(t, "true")
    /\ tmDue' = LiveDue(tmDue, tmState')
    /\ stale' = LiveStale(stale, tmState')
    /\ UNCHANGED <<chanVars, tmCh, limits, tpc, now>>
    /\ UNCHANGED <<owed, stolen>>

\* stop: `if not self._is_active: return False`, else call _stop_fire
StopCheck(t) ==
    /\ cpc[t] = "s_chk"
    /\ IF isActive[cop[t].ch] THEN Goto(t, "sf_chk") ELSE Finish(t, "false")
    /\ UNCHANGED <<chanVars, timerVars, now>>
    /\ UNCHANGED histVars

\* a lock holder (stop or is_active) executes one statement of _stop_fire;
\* stop then returns True, is_active goes on to its return statement
CallerStopFire(t) ==
    /\ cpc[t] \in StopFireLabels
    /\ \E to \in StopFireLabels :
          /\ StopFireStmt(cop[t].ch, cpc[t], to)
          /\ CASE to = "crash" -> Finish(t, "exc")
               [] to = "sf_ret" /\ cop[t].m = "stop" -> Finish(t, "true")
               [] to = "sf_ret" /\ cop[t].m # "stop" -> Goto(t, "a_ret")
               [] OTHER -> Goto(t, to)
    /\ tmState' = AfterCancel(tmState, StopFireCancels(cop[t].ch, cpc[t]))
    /\ tmDue' = LiveDue(tmDue, tmState')
    /\ stale' = IF cop[t].m = "stop" /\ cres'[t] = "true"
                  THEN [k \in Timers |-> stale[k] \/ Pending(k, cop[t].ch, tmState')]
                  ELSE LiveStale(stale, tmState')
    /\ UNCHANGED <<tmCh, limits, tpc, now>>
    /\ UNCHANGED <<owed, stolen>>

\* is_active: `if self._is_active and self._end_time:`, first operand
IsActiveCheck(t) ==
    /\ cpc[t] = "a_chk"
    /\ Goto(t, IF isActive[cop[t].ch] THEN "a_end" ELSE "a_ret")
    /\ UNCHANGED <<chanVars, timerVars, now>>
    /\ UNCHANGED histVars

\* is_active: `... and self._end_time`, second operand (a time is never 0.0)
IsActiveEnd(t) ==
    /\ cpc[t] = "a_end"
    /\ Goto(t, IF endTime[cop[t].ch] # None THEN "a_cmp" ELSE "a_ret")
    /\ UNCHANGED <<chanVars, timerVars, now>>
    /\ UNCHANGED histVars

\* is_active: `if time.time() >= self._end_time: self._stop_fire()`;
\* TypeError when a timer thread has set _end_time to None since the test
IsActiveCompare(t) ==
    /\ cpc[t] = "a_cmp"
    /\ IF endTime[cop[t].ch] = None
         THEN Finish(t, "exc")
         ELSE Goto(t, IF now >= TheVal(endTime[cop[t].ch]) THEN "sf_chk" ELSE "a_ret")
    /\ UNCHANGED <<chanVars, timerVars, now>>
    /\ UNCHANGED histVars

\* is_active: `return self._is_active`
IsActiveReturn(t) ==
    /\ cpc[t] = "a_ret"
    /\ Finish(t, IF isActive[cop[t].ch] THEN "true" ELSE "false")
    /\ UNCHANGED <<chanVars, timerVars, now>>
    /\ UNCHANGED histVars

\* the caller has its result and is free for the next call
Return(t) ==
    /\ cpc[t] = "ret"
    /\ cpc' = [cpc EXCEPT ![t] = "idle"]
    /\ cop' = [cop EXCEPT ![t] = NoOp]
    /\ cres' = [cres EXCEPT ![t] = "none"]
    /\ UNCHANGED <<chanVars, timerVars, lock, histVars, now>>

\* one statement of a Poofer method by caller t
CallerStep(t) ==
    \/ Acquire(t)
    \/ FireCheck(t) \/ FireSetActive(t) \/ FireSetEnd(t) \/ FireTimerTest(t)
    \/ FireCancel(t) \/ FirePin(t) \/ FireNewTimer(t) \/ FireStart(t)
    \/ StopCheck(t) \/ CallerStopFire(t)
    \/ IsActiveCheck(t) \/ IsActiveEnd(t) \/ IsActiveCompare(t) \/ IsActiveReturn(t)

\* ---------------------------------------------------------------- the clock
Quiet ==
    /\ \A t \in Callers : cpc[t] = "idle"
    /\ \A k \in Timers : tmState[k] \notin {"created", "running"}
    /\ eop.op = "none"
    /\ \A w \in wdNext : w > now

TimerDue(k) == tmState[k] = "waiting" /\ now >= tmDue[k]

\* nothing is left to do at this time
TickReady == Quiet /\ \A k \in Timers : ~TimerDue(k)

Tick ==
    /\ now < horizon
    /\ TickReady
    /\ now' = now + 1
    /\ owed' = [c \in PooferIds |-> {e \in owed[c] : e > now'}]
    /\ UNCHANGED <<chanVars, timerVars, cpc, cop, cres, lock, stolen, stale>>

\* ------------------------------------------------------------- PyroEngine
AutoShutoff    == 0   \* config.safety.auto_shutoff_timeout, in time units
MonitorPeriod  == 1   \* _safety_monitor: asyncio.sleep(1.0)
MonitorBackoff == 5   \* _safety_monitor: asyncio.sleep(5.0) after an exception

\* The engine's methods run in the event loop thread and never suspend inside
\* (asyncio.Lock is uncontended), so one engine call is in progress at a time:
\* eop.todo are the Poofer calls it still has to make, eop.res the results it
\* has collected (<<"exc">>: an exception is propagating to the caller).
\* eop.latched, eop.was and eop.n remember the latch and _last_activity at the
\* time of the call and the number of ids asked for.
NoEngineOp ==
    [op |-> "none", own |-> "-", todo |-> <<>>, res |-> <<>>,
     latched |-> FALSE, n |-> 0, was |-> 0]

EngineOp(op, own, todo, res, n) ==
    [op |-> op, own |-> own, todo |-> todo, res |-> res,
     latched |-> emergencyStop, n |-> n, was |-> lastActivity]

\* PyroEngine.__init__
InitEngine ==
    /\ emergencyStop = FALSE
    /\ lastActivity = 0
    /\ wdNext = None
    /\ eop = NoEngineOp
    /\ sinceCmd = 0
    /\ tripStops = FALSE
    /\ tripDone = FALSE

\* the event loop is between two callbacks
LoopFree == cpc[1] = "idle" /\ eop.op = "none"

PooferCall(m, c, arg) == [m |-> m, ch |-> c, arg |-> arg]

\* `for poofer in self.poofers.values()`: channels 1..n in order
StopAllCalls ==
    [c \in 1..Cardinality(PooferIds) |-> PooferCall("stop", c, <<>>)]

IsActiveCalls ==
    [c \in 1..Cardinality(PooferIds) |-> PooferCall("is_active", c, <<>>)]

FiresIn(todo) == Cardinality({i \in 1..Len(todo) : todo[i].m = "fire"})

\* a time beyond the horizon is as good as any other
Later(t) == Min(t, horizon + 1)

\* `if self._emergency_stop:` of fire_poofer and fire_multiple
Latched_M == FALSE
Latched == emergencyStop

\* fire_poofer with `self._last_activity = time.time()` moved before the test
\* of the id
FirePoofer_M(own, id, arg) ==
    /\ LoopFree
    /\ sinceCmd' = 0
    /\ IF Latched
         THEN /\ eop' = EngineOp("fire_poofer", own, <<>>, <<"false">>, 1)
              /\ UNCHANGED lastActivity
         ELSE /\ lastActivity' = now
              /\ IF id \notin PooferIds
                   THEN eop' = EngineOp("fire_poofer", own, <<>>, <<"false">>, 1)
                   ELSE /\ TimersClaimed < tmLimit
                        /\ eop' = EngineOp("fire_poofer", own,
                                           <<PooferCall("fire", id, arg)>>, <<>>, 1)
    /\ UNCHANGED <<chanVars, timerVars, callVars, now>>
    /\ UNCHANGED <<emergencyStop, wdNext, tripStops, tripDone>>

\* fire_poofer(poofer_id, duration), called by `own`
FirePoofer(own, id, arg) ==
    /\ LoopFree
    /\ sinceCmd' = 0
    /\ IF Latched \/ id \notin PooferIds
         THEN /\ eop' = EngineOp("fire_poofer", own, <<>>, <<"false">>, 1)
              /\ UNCHANGED lastActivity
         ELSE /\ TimersClaimed < tmLimit
              /\ lastActivity' = now
              /\ eop' = EngineOp("fire_poofer", own,
                                 <<PooferCall("fire", id, arg)>>, <<>>, 1)
    /\ UNCHANGED <<chanVars, timerVars, callVars, now>>
    /\ UNCHANGED <<emergencyStop, wdNext, tripStops, tripDone>>

\* fire_multiple(poofer_ids, duration): an unknown id yields False in place
FireMultiple(own, ids, arg) ==
    /\ LoopFree
    /\ sinceCmd' = 0
    /\ IF Latched
         THEN /\ eop' = EngineOp("fire_multiple", own, <<>>,
                                 [i \in 1..Len(ids) |-> "false"], Len(ids))
              /\ UNCHANGED lastActivity
         ELSE LET todo == [i \in 1..Len(ids) |->
                              IF ids[i] \in PooferIds
                                THEN PooferCall("fire", ids[i], arg)
                                ELSE PooferCall("skip", 1, <<>>)]
              IN /\ TimersClaimed + FiresIn(todo) <= tmLimit
                 /\ lastActivity' = now
                 /\ eop' = EngineOp("fire_multiple", own, todo, <<>>, Len(ids))
    /\ UNCHANGED <<chanVars, timerVars, callVars, now>>
    /\ UNCHANGED <<emergencyStop, wdNext, tripStops, tripDone>>

\* stop_poofer(poofer_id)
StopPoofer(own, id) ==
    /\ LoopFree
    /\ eop' = IF id \in PooferIds
                THEN EngineOp("stop_poofer", own, <<PooferCall("stop", id, <<>>)>>, <<>>, 1)
                ELSE EngineOp("stop_poofer", own, <<>>, <<"false">>, 1)
    /\ UNCHANGED <<chanVars, timerVars, callVars, now>>
    /\ UNCHANGED <<emergencyStop, lastActivity, wdNext, sinceCmd, tripStops, tripDone>>

\* stop_all() that also trips the latch
StopAll_M(own) ==
    /\ LoopFree
    /\ eop' = EngineOp("stop_all", own, StopAllCalls, <<>>, 0)
    /\ emergencyStop' = TRUE
    /\ tripStops' = TRUE
    /\ UNCHANGED <<chanVars, timerVars, callVars, now>>
    /\ UNCHANGED <<lastActivity, wdNext, sinceCmd, tripDone>>

\* stop_all()
StopAll(own) ==
    /\ LoopFree
    /\ eop' = EngineOp("stop_all", own, StopAllCalls, <<>>, 0)
    /\ tripStops' = (tripStops \/ emergencyStop)
    /\ UNCHANGED <<chanVars, timerVars, callVars, now>>
    /\ UNCHANGED <<emergencyStop, lastActivity, wdNext, sinceCmd, tripDone>>

\* emergency_stop(): sets the latch, then stop_all()
EmergencyStop(own) ==
    /\ LoopFree
    /\ emergencyStop' = TRUE
    /\ eop' = EngineOp("emergency_stop", own, StopAllCalls, <<>>, 0)
    /\ tripStops' = TRUE
    /\ UNCHANGED <<chanVars, timerVars, callVars, now>>
    /\ UNCHANGED <<lastActivity, wdNext, sinceCmd, tripDone>>

\* reset_emergency_stop() that also re-energizes the pins
ResetEmergencyStop_M(own) ==
    /\ LoopFree
    /\ emergencyStop' = FALSE
    /\ eop' = EngineOp("reset_emergency_stop", own, <<>>, <<>>, 0)
    /\ tripStops' = FALSE
    /\ tripDone' = FALSE
    /\ pin' = [c \in PooferIds |-> TRUE]
    /\ pinSince' = [c \in PooferIds |-> IF pin[c] THEN pinSince[c] ELSE now]
    /\ UNCHANGED <<isActive, endTime, timer, timerVars, callVars, now>>
    /\ UNCHANGED <<lastActivity, wdNext, sinceCmd>>

\* reset_emergency_stop(), called by `own`
ResetEmergencyStop(own) ==
    /\ LoopFree
    /\ emergencyStop' = FALSE
    /\ eop' = EngineOp("reset_emergency_stop", own, <<>>, <<>>, 0)
    /\ tripStops' = FALSE
    /\ tripDone' = FALSE
    /\ UNCHANGED <<chanVars, timerVars, callVars, now>>
    /\ UNCHANGED <<lastActivity, wdNext, sinceCmd>>

\* the engine call makes its next Poofer call
EngineDispatch ==
    /\ cpc[1] = "idle"
    /\ eop.todo # <<>>
    /\ LET c == Head(eop.todo) IN
         IF c.m = "skip"
           THEN /\ eop' = [eop EXCEPT !.todo = Tail(@), !.res = Append(@, "false")]
                /\ UNCHANGED <<chanVars, timerVars, callVars, now>>
           ELSE /\ Call(1, c.m, c.ch, c.arg)
                /\ eop' = [eop EXCEPT !.todo = Tail(@)]
    /\ UNCHANGED <<emergencyStop, lastActivity, wdNext, sinceCmd, tripStops, tripDone>>

\* the Poofer call is back: an exception propagates out of the engine call;
\* `any(poofer.is_active() ...)` of the safety monitor stops at the first True
\* and stop_all() follows; fire and stop results are collected
EngineCollect ==
    /\ cpc[1] = "ret"
    /\ eop.op # "none"
    /\ Return(1)
    /\ eop' = CASE cres[1] = "exc" ->
                     [eop EXCEPT !.todo = <<>>, !.res = <<"exc">>]
                [] cres[1] # "exc" /\ eop.op = "monitor_any" /\ cres[1] = "true" ->
                     [eop EXCEPT !.op = "monitor_stop", !.todo = StopAllCalls]
                [] cres[1] # "exc" /\ eop.op \in {"fire_poofer", "fire_multiple", "stop_poofer"} ->
                     [eop EXCEPT !.res = Append(@, cres[1])]
                [] OTHER -> eop
    /\ tripStops' = (tripStops \/ (emergencyStop /\ eop.op = "monitor_any"
                                   /\ cres[1] = "true"))
    /\ UNCHANGED <<emergencyStop, lastActivity, wdNext, sinceCmd, tripDone>>

\* the engine call returns to (or raises in) its caller
EngineDone(own) ==
    /\ eop.own = own
    /\ eop.op # "none"
    /\ eop.todo = <<>>
    /\ cpc[1] = "idle"
    /\ eop' = NoEngineOp
    /\ tripDone' = (tripDone \/ (eop.op = "emergency_stop" /\ eop.res # <<"exc">>))
    /\ UNCHANGED <<chanVars, timerVars, callVars, now>>
    /\ UNCHANGED <<emergencyStop, lastActivity, sinceCmd, tripStops>>

\* start_safety_monitor(): the task runs at the next turn of the loop
StartSafetyMonitor ==
    /\ LoopFree
    /\ wdNext = None
    /\ wdNext' = Some(now)
    /\ UNCHANGED <<chanVars, timerVars, callVars, now>>
    /\ UNCHANGED <<emergencyStop, lastActivity, eop, sinceCmd, tripStops, tripDone>>

\* _safety_monitor wakes: the timeout test, then any(is_active) or sleep(1.0)
MonitorWake ==
    /\ LoopFree
    /\ \E w \in wdNext : w <= now
    /\ IF now - lastActivity > AutoShutoff
         THEN /\ eop' = EngineOp("monitor_any", "monitor", IsActiveCalls, <<>>, 0)
              /\ UNCHANGED wdNext
         ELSE /\ wdNext' = Some(Later(now + MonitorPeriod))
              /\ UNCHANGED eop
    /\ UNCHANGED <<chanVars, timerVars, callVars, now>>
    /\ UNCHANGED <<emergencyStop, lastActivity, sinceCmd, tripStops, tripDone>>

\* _safety_monitor: sleep(1.0) after the check, sleep(5.0) in `except Exception`
MonitorSleep ==
    /\ EngineDone("monitor")
    /\ wdNext' = Some(Later(now + (IF eop.res = <<"exc">> THEN MonitorBackoff
                                                         ELSE MonitorPeriod)))

\* time passes for the engine
EngineTick ==
    /\ Tick
    /\ sinceCmd' = Min(sinceCmd + 1, AutoShutoff + 1)
    /\ UNCHANGED <<emergencyStop, lastActivity, wdNext, eop, tripStops, tripDone>>

\* one statement of a Poofer method, in the loop thread or in a timer thread
PooferStep ==
    \/ \E t \in Callers : CallerStep(t)
    \/ \E k \in Timers : TimerExpire(k)
    \/ \E k \in Timers : TimerStep(k)

\* an id that is not in self.poofers, and the id lists of fire_multiple
UnknownId == Cardinality(PooferIds) + 1
IdLists   == {<<1, 2>>, <<UnknownId, 1>>}

\* -------------------------------------------------------------- WebServer
\* Connections: hpc is "new" (not yet connected), "busy" (the handler is
\* inside an engine call), "open" (it waits in `async for message in
\* websocket`), "cleanup" (inside the engine call of its finally / except
\* block), "done" (ended after that call) or "dropped" (ended without one).
Conns == {"h1", "h2"}

\* websocket.path: a stalk endpoint (self.stalks[name] = id), `all`, `control`
Endpoints ==
    {[kind |-> "stalk", id |-> 1], [kind |-> "all", id |-> 0],
     [kind |-> "control", id |-> 0]}

NoEndpoint == [kind |-> "-", id |-> 0]

\* list(range(1, 8)): the configured channels and ids beyond them
AllIds == <<1, 2, UnknownId>>

\* how a connection ends, as seen by the handler waiting in `async for`
Ends == {"clean", "abrupt", "error", "cancel"}

\* {"action": ..., "target": ...} of the control endpoint; target 0 is "all"
ControlMsgs == [action : {"fire", "stop"}, target : {0, 1}]

InitWeb ==
    /\ hpc = [h \in Conns |-> "new"]
    /\ hep = [h \in Conns |-> NoEndpoint]
    /\ hend = [h \in Conns |-> "-"]
    /\ owner = [c \in PooferIds |-> "-"]

\* the engine call of the handler's `finally` (stalk: stop_poofer(poofer_id),
\* all: stop_all()) or of _handle_control's `except` blocks (stop_all())
CleanupOp(h) ==
    IF hep[h].kind = "stalk"
      THEN EngineOp("stop_poofer", h, <<PooferCall("stop", hep[h].id, <<>>)>>, <<>>, 1)
      ELSE EngineOp("stop_all", h, StopAllCalls, <<>>, 0)

\* handle_client: the handler of the endpoint starts; _handle_stalk calls
\* fire_poofer, _handle_all calls fire_multiple, _handle_control waits
Connect(h, ep) ==
    /\ hpc[h] = "new"
    /\ hep' = [hep EXCEPT ![h] = ep]
    /\ CASE ep.kind = "stalk" ->
              FirePoofer(h, ep.id, <<>>) /\ hpc' = [hpc EXCEPT ![h] = "busy"]
         [] ep.kind = "all" ->
              FireMultiple(h, AllIds, <<>>) /\ hpc' = [hpc EXCEPT ![h] = "busy"]
         [] OTHER ->
              /\ LoopFree
              /\ hpc' = [hpc EXCEPT ![h] = "open"]
              /\ UNCHANGED <<chanVars, timerVars, callVars, now, engVars>>
    /\ UNCHANGED <<hend, owner>>

\* _handle_control: one JSON message, its engine call
ControlMessage(h, msg) ==
    /\ hpc[h] = "open"
    /\ hep[h].kind = "control"
    /\ hpc' = [hpc EXCEPT ![h] = "busy"]
    /\ CASE msg.action = "fire" /\ msg.target = 0 -> FireMultiple(h, AllIds, <<>>)
         [] msg.action = "fire" /\ msg.target # 0 -> FirePoofer(h, msg.target, <<>>)
         [] msg.action = "stop" /\ msg.target = 0 -> StopAll(h)
         [] OTHER -> StopPoofer(h, msg.target)
    /\ UNCHANGED <<hep, hend, owner>>

\* the handler's engine call returns or raises.  On connect, an exception of
\* fire_poofer / fire_multiple takes _handle_stalk and _handle_all to their
\* `finally`; _handle_control swallows every exception of a message and waits
\* for the next one.  After the cleanup call the handler has ended.
HandlerReturn(h) ==
    /\ eop.own = h
    /\ eop.op # "none"
    /\ eop.todo = <<>>
    /\ cpc[1] = "idle"
    /\ CASE hpc[h] = "busy" /\ hep[h].kind # "control" /\ eop.res = <<"exc">> ->
              /\ eop' = CleanupOp(h)
              /\ hpc' = [hpc EXCEPT ![h] = "cleanup"]
              /\ hend' = [hend EXCEPT ![h] = "error"]
         [] hpc[h] = "cleanup" ->
              /\ eop' = NoEngineOp
              /\ hpc' = [hpc EXCEPT ![h] = "done"]
              /\ UNCHANGED hend
         [] OTHER ->
              /\ eop' = NoEngineOp
              /\ hpc' = [hpc EXCEPT ![h] = "open"]
              /\ UNCHANGED hend
    /\ UNCHANGED <<chanVars, timerVars, callVars, now>>
    /\ UNCHANGED <<emergencyStop, lastActivity, wdNext, sinceCmd, tripStops, tripDone>>
    /\ UNCHANGED <<hep, owner>>

\* the connection ends while the handler waits for a message.  _handle_stalk
\* and _handle_all reach `finally` in every case.  In _handle_control the
\* `async for` just ends on a clean close and the handler returns; only
\* ConnectionClosed (abrupt close) or another Exception reaches stop_all();
\* CancelledError is not an Exception.
HandlerEnd(h, how) ==
    /\ hpc[h] = "open"
    /\ LoopFree
    /\ hend' = [hend EXCEPT ![h] = how]
    /\ IF hep[h].kind = "control" /\ how \in {"clean", "cancel"}
         THEN /\ hpc' = [hpc EXCEPT ![h] = "dropped"]
              /\ UNCHANGED eop
         ELSE /\ hpc' = [hpc EXCEPT ![h] = "cleanup"]
              /\ eop' = CleanupOp(h)
    /\ UNCHANGED <<chanVars, timerVars, callVars, now>>
    /\ UNCHANGED <<emergencyStop, lastActivity, wdNext, sinceCmd, tripStops, tripDone>>
    /\ UNCHANGED <<hep, owner>>

\* EngineDispatch; a fire call puts the channel's ownership in question
WebDispatch ==
    /\ EngineDispatch
    /\ owner' = IF Head(eop.todo).m = "fire"
                  THEN [owner EXCEPT ![Head(eop.todo).ch] = "-"]
                  ELSE owner
    /\ UNCHANGED <<hpc, hep, hend>>

\* EngineCollect, remembering whose fire a channel accepted last
WebCollect ==
    /\ EngineCollect
    /\ owner' = IF cop[1].m = "fire" /\ cres[1] = "true"
                  THEN [owner EXCEPT ![cop[1].ch] = eop.own]
                  ELSE owner
    /\ UNCHANGED <<hpc, hep, hend>>

\* ------------------------------------------- WebServer: preset sequences
\* _handle_sequence1: `while True: await self._fire_pattern_sequence1();
\* await asyncio.sleep(0.1)`.  _fire_pattern_sequence1 gathers two
\* _ignition_timer tasks.  The handler never reads the websocket.  All delays
\* and pulse durations of the sequences are shorter than the time unit: the
\* pulses have duration 0 in whole units and the sleeps end within the instant.
Tasks == {"A", "B"}

\* the poofer lists of the two tasks, [1, 3, 5] and [2, 4, 6], cut down to
\* channel 1 and an id that is not configured
SeqPoofers(t) == IF t = "A" THEN <<1, UnknownId>> ELSE <<UnknownId>>

InitSeq ==
    /\ sconn = "none"
    /\ spc = "new"
    /\ stask = [t \in Tasks |-> "idle"]
    /\ srep = [t \in Tasks |-> 0]

\* handle_client -> _handle_sequence1 -> _fire_pattern_sequence1: gather
\* starts the tasks
SeqConnect ==
    /\ spc = "new"
    /\ spc' = "running"
    /\ sconn' = "open"
    /\ stask' = [t \in Tasks |-> "start"]
    /\ UNCHANGED srep

\* the client closes the connection (in any way)
SeqClose ==
    /\ sconn = "open"
    /\ sconn' = "closed"
    /\ UNCHANGED <<spc, stask, srep>>

\* _ignition_timer: `await self.pyro_engine.fire_multiple(poofers, duration)`
TaskFire(t) ==
    /\ stask[t] = "start"
    /\ FireMultiple(t, SeqPoofers(t), <<0>>)
    /\ stask' = [stask EXCEPT ![t] = "firing"]
    /\ UNCHANGED <<sconn, spc, srep>>

\* _ignition_timer after `await asyncio.sleep(duration)`:
\* `for poofer_id in poofers: self.pyro_engine.stop_poofer(poofer_id)`;
\* after the inter-repetition sleep: the next repetition
TaskWake(t) ==
    /\ LoopFree
    /\ \/ /\ stask[t] = "sleep1"
          /\ eop' = EngineOp("stop_each", t,
                             [i \in 1..Len(SeqPoofers(t)) |->
                                 IF SeqPoofers(t)[i] \in PooferIds
                                   THEN PooferCall("stop", SeqPoofers(t)[i], <<>>)
                                   ELSE PooferCall("skip", 1, <<>>)],
                             <<>>, Len(SeqPoofers(t)))
          /\ stask' = [stask EXCEPT ![t] = "stopping"]
          /\ UNCHANGED srep
       \/ /\ stask[t] = "sleep2"
          /\ stask' = [stask EXCEPT ![t] = "start"]
          /\ srep' = [srep EXCEPT ![t] = @ + 1]
          /\ UNCHANGED eop
    /\ UNCHANGED <<chanVars, timerVars, callVars, now>>
    /\ UNCHANGED <<emergencyStop, lastActivity, wdNext, sinceCmd, tripStops, tripDone>>
    /\ UNCHANGED <<sconn, spc>>

\* the task's engine call returns: the task sleeps, or has made its last
\* repetition; or the call raises: the exception ends the task, leaves gather
\* and ends the handler (it is not ConnectionClosed)
TaskReturn(t) ==
    /\ eop.own = t
    /\ eop.op # "none"
    /\ eop.todo = <<>>
    /\ cpc[1] = "idle"
    /\ eop' = NoEngineOp
    /\ IF eop.res = <<"exc">>
         THEN /\ stask' = [stask EXCEPT ![t] = "finished"]
              /\ spc' = IF spc = "running" THEN "failed" ELSE spc
         ELSE /\ stask' = [stask EXCEPT ![t] =
                             CASE stask[t] = "firing" -> "sleep1"
                               [] stask[t] # "firing" /\ srep[t] < SeqReps - 1 -> "sleep2"
                               [] OTHER -> "finished"]
              /\ UNCHANGED spc
    /\ UNCHANGED <<chanVars, timerVars, callVars, now>>
    /\ UNCHANGED <<emergencyStop, lastActivity, wdNext, sinceCmd, tripStops, tripDone>>
    /\ UNCHANGED <<sconn, srep>>

\* gather has returned: `await asyncio.sleep(0.1)`
SeqPause ==
    /\ spc = "running"
    /\ \A t \in Tasks : stask[t] = "finished"
    /\ spc' = "pause"
    /\ UNCHANGED <<sconn, stask, srep>>

\* `while True`: the next round of the pattern
SeqAgain ==
    /\ spc = "pause"
    /\ spc' = "running"
    /\ stask' = [t \in Tasks |-> "start"]
    /\ srep' = [t \in Tasks |-> 0]
    /\ UNCHANGED sconn

\* ---------------------------------------------------------- PatternEngine
\* a Pattern, as far as the scheduler reads it: length_ticks and loop
Patterns == [len : 1..MaxTicks, loop : BOOLEAN]

\* PatternEngine.__init__
InitPattern ==
    /\ pPattern = None
    /\ pPlaying = FALSE
    /\ pTick = 0
    /\ pTask = "none"
    /\ pRun = FALSE
    /\ pLast = "-"
    /\ pStopAll = FALSE
    /\ pSnap = None
    /\ pLost = 0

\* stop(), as far as it touches the playback task: `if self._playback_task
\* and not self._playback_task.done(): self._playback_task.cancel()`
AfterStop(task) == IF task = "created" THEN "cancelled" ELSE task

\* the part of an action that leaves the engine and the channels alone
EngineIdle ==
    /\ LoopFree
    /\ UNCHANGED <<chanVars, timerVars, callVars, now, engVars>>

\* load_pattern(pattern): stop() when playing, then the pattern and tick 0
LoadPattern(p) ==
    /\ IF pPlaying THEN StopAll("pattern") ELSE EngineIdle
    /\ pPattern' = Some(p)
    /\ pPlaying' = FALSE
    /\ pTask' = IF pPlaying THEN AfterStop(pTask) ELSE pTask
    /\ pTick' = 0
    /\ pRun' = FALSE
    /\ pLast' = "load_pattern"
    /\ pStopAll' = (pPlaying \/ pStopAll)
    /\ pSnap' = Some(p)
    /\ UNCHANGED pLost

\* play() without a pattern loaded (`if not self._current_pattern: return
\* False`), with a task created all the same
PlayRejected_M ==
    /\ pPattern = None \/ pPlaying
    /\ EngineIdle
    /\ pTask' = "created"
    /\ pRun' = FALSE
    /\ pLast' = "play_false"
    /\ UNCHANGED <<pPattern, pPlaying, pTick, pStopAll, pSnap, pLost>>

\* play() without an argument and without a pattern loaded (`if not
\* self._current_pattern: return False`) or while playing (`if self._playing:
\* return False`): nothing changes
PlayRejected ==
    /\ pPattern = None \/ pPlaying
    /\ EngineIdle
    /\ pRun' = FALSE
    /\ pLast' = "play_false"
    /\ UNCHANGED <<pPattern, pPlaying, pTick, pTask, pStopAll, pSnap, pLost>>

\* play(pattern) assigns _playback_task while the task it referred to is
\* alive: not run yet, and not cancelled by the stop() of load_pattern
Replaced(arg) ==
    (IF arg # None /\ pPlaying THEN AfterStop(pTask) ELSE pTask) = "created"

\* play(pattern), accepted: load_pattern when a pattern is given, then
\* _playing = True and the playback task is created
Play(arg) ==
    /\ arg # None \/ (pPattern # None /\ ~pPlaying)
    /\ Replaced(arg) => pLost < MaxLost
    /\ IF arg # None /\ pPlaying THEN StopAll("pattern") ELSE EngineIdle
    /\ pPattern' = IF arg # None THEN arg ELSE pPattern
    /\ pTick' = IF arg # None THEN 0 ELSE pTick
    /\ pPlaying' = TRUE
    /\ pTask' = "created"
    /\ pRun' = (~TheVal(pPattern').loop /\ pTick' = 0)
    /\ pLast' = "play"
    /\ pStopAll' = ((arg # None /\ pPlaying) \/ pStopAll)
    /\ pSnap' = IF arg # None THEN arg ELSE pSnap
    /\ pLost' = IF Replaced(arg) THEN pLost + 1 ELSE pLost

\* stop() when playing: _playing = False, the task is cancelled and
\* pyro_engine.stop_all() is called
Stop ==
    /\ pPlaying
    /\ StopAll("pattern")
    /\ pPlaying' = FALSE
    /\ pTask' = AfterStop(pTask)
    /\ pRun' = FALSE
    /\ pLast' = "stop"
    /\ pStopAll' = TRUE
    /\ UNCHANGED <<pPattern, pTick, pSnap, pLost>>

\* stop() when not playing: `if not self._playing: return`
StopIdle ==
    /\ ~pPlaying
    /\ EngineIdle
    /\ pRun' = FALSE
    /\ pLast' = "stop"
    /\ pStopAll' = FALSE
    /\ UNCHANGED <<pPattern, pPlaying, pTick, pTask, pSnap, pLost>>

\* pause(): `if self._playing: self._playing = False`
Pause ==
    /\ pPlaying
    /\ EngineIdle
    /\ pPlaying' = FALSE
    /\ pRun' = FALSE
    /\ pLast' = "pause"
    /\ UNCHANGED <<pPattern, pTick, pTask, pStopAll, pSnap, pLost>>

\* resume(): `if not self._playing and self._current_pattern: self.play()`.
\* play is a coroutine function: the call makes a coroutine object that is
\* never awaited, so no statement of play() runs and nothing changes
Resume ==
    /\ EngineIdle
    /\ pRun' = FALSE
    /\ pLast' = "resume"
    /\ UNCHANGED <<pPattern, pPlaying, pTick, pTask, pStopAll, pSnap, pLost>>

\* set_tick(tick) that takes min(tick, length_ticks - 1) as it is
SetTick_M(tick) ==
    /\ pPattern # None
    /\ EngineIdle
    /\ pTick' = Min(tick, TheVal(pPattern).len - 1)
    /\ pRun' = FALSE
    /\ pLast' = "set_tick"
    /\ UNCHANGED <<pPattern, pPlaying, pTask, pStopAll, pSnap, pLost>>

\* set_tick(tick): max(0, min(tick, length_ticks - 1)) with a pattern loaded
SetTick(tick) ==
    /\ pPattern # None
    /\ EngineIdle
    /\ pTick' = IF Min(tick, TheVal(pPattern).len - 1) < 0
                  THEN 0 ELSE Min(tick, TheVal(pPattern).len - 1)
    /\ pRun' = FALSE
    /\ pLast' = "set_tick"
    /\ UNCHANGED <<pPattern, pPlaying, pTask, pStopAll, pSnap, pLost>>

\* _playback_loop, from its first statement to the first evaluation of
\* `while self._playing and not self._stop_event.is_set()`: no attribute
\* _stop_event exists, so with _playing True the test raises AttributeError
\* outside the `try` and the task ends there, _playing left True; with
\* _playing False (pause() came first) the loop is not entered and the task
\* returns.  The body of the loop is never reached.
PlaybackLoopFails == pPlaying

PlaybackLoop ==
    /\ pTask = "created"
    /\ pLost = 0
    /\ EngineIdle
    /\ pTask' = IF PlaybackLoopFails THEN "failed" ELSE "ended"
    /\ UNCHANGED <<pPattern, pPlaying, pTick, pRun, pLast, pStopAll, pSnap, pLost>>

\* _playback_loop of a task that _playback_task no longer refers to: it ends
\* the same way (AttributeError with _playing True, else a return) and
\* changes nothing.  The event loop runs its tasks in the order of their
\* creation, so these tasks run before the task of the last play()
LostPlaybackLoop ==
    /\ pLost > 0
    /\ EngineIdle
    /\ pLost' = pLost - 1
    /\ UNCHANGED <<pPattern, pPlaying, pTick, pTask, pRun, pLast, pStopAll, pSnap>>

\* Pattern.add_event(poofer_id, tick) by the caller on the Pattern object it
\* gave to load_pattern / play.  load_pattern keeps the reference
\* (`self._current_pattern = pattern`), so _current_pattern is that object:
\* `self.length_ticks = max(self.length_ticks, tick + 1)`
AddEventLoaded(tick) ==
    /\ pPattern # None
    /\ EngineIdle
    /\ pPattern' = Some([TheVal(pPattern) EXCEPT
                            !.len = IF @ >= tick + 1 THEN @ ELSE tick + 1])
    /\ UNCHANGED <<pPlaying, pTick, pTask, pRun, pLast, pStopAll, pSnap, pLost>>

\* ----------------------------------------------------------------- Pattern
\* FireEvent(poofer_id, tick, duration, velocity); durations and velocities
\* are taken from two values each (0.2 and 1.0 are the defaults)
FireEvents == [poofer_id : PooferIds, tick : 0..(MaxTicks - 1),
               duration : {1, 2}, velocity : {1}]

\* Pattern(name): events = [], length_ticks = 0, loop = True
NewPattern(name) == [name |-> name, events |-> <<>>, length_ticks |-> 0, loop |-> TRUE]

InitData ==
    /\ pat = NewPattern("p")
    /\ rt = None

\* the event lists a caller may pass to the constructor
EventLists == {<<>>} \cup {<<e>> : e \in {f \in FireEvents : f.duration = 1}}

\* Pattern(name, events, length_ticks, loop): the dataclass constructor
\* stores its arguments as they are
Construct(events, length_ticks, loop) ==
    /\ pat' = [name |-> "p", events |-> events, length_ticks |-> length_ticks,
               loop |-> loop]
    /\ rt' = None

\* add_event: `self.events.append(event)`;
\* `self.length_ticks = max(self.length_ticks, tick + 1)`
AddEvent(p, e) ==
    [p EXCEPT !.events = Append(@, e),
              !.length_ticks = IF @ >= e.tick + 1 THEN @ ELSE e.tick + 1]

\* remove_event: `del self.events[i]` for the first event of (poofer_id, tick)
Matches(p, poofer_id, tick) ==
    {i \in 1..Len(p.events) : p.events[i].poofer_id = poofer_id /\ p.events[i].tick = tick}

RemoveEvent(p, poofer_id, tick) ==
    IF Matches(p, poofer_id, tick) = {}
      THEN p
      ELSE LET i == CHOOSE k \in Matches(p, poofer_id, tick) :
                       \A j \in Matches(p, poofer_id, tick) : k <= j
           IN [p EXCEPT !.events = SubSeq(@, 1, i - 1) \o SubSeq(@, i + 1, Len(@))]

\* get_events_at_tick
GetEventsAtTick(p, tick) == SelectSeq(p.events, LAMBDA e : e.tick = tick)

\* to_dict: the dictionary of name, length_ticks, loop and the event
\* dictionaries, in list order
ToDict(p) ==
    [d_name |-> p.name, d_length_ticks |-> p.length_ticks, d_loop |-> p.loop,
     d_events |-> [i \in 1..Len(p.events) |->
                     [d_poofer_id |-> p.events[i].poofer_id, d_tick |-> p.events[i].tick,
                      d_duration |-> p.events[i].duration,
                      d_velocity |-> p.events[i].velocity]]]

\* from_dict: cls(name, length_ticks, loop), then add_event for each event
\* dictionary in turn
RECURSIVE AddAll(_, _)
AddAll(p, ds) ==
    IF ds = <<>> THEN p
    ELSE AddAll(AddEvent(p, [poofer_id |-> Head(ds).d_poofer_id, tick |-> Head(ds).d_tick,
                             duration |-> Head(ds).d_duration,
                             velocity |-> Head(ds).d_velocity]),
                Tail(ds))

FromDict(d) ==
    AddAll([name |-> d.d_name, events |-> <<>>, length_ticks |-> d.d_length_ticks,
            loop |-> d.d_loop],
           d.d_events)

\* the caller adds an event to the pattern
DoAddEvent(e) ==
    /\ Len(pat.events) < MaxEvents
    /\ pat' = AddEvent(pat, e)
    /\ rt' = None

\* the caller removes an event that the pattern has
DoRemoveEvent(poofer_id, tick) ==
    /\ Matches(pat, poofer_id, tick) # {}
    /\ pat' = RemoveEvent(pat, poofer_id, tick)
    /\ rt' = None

\* the caller serializes the pattern and reads it back
RoundTrip ==
    /\ rt = None
    /\ rt' = Some(FromDict(ToDict(pat)))
    /\ UNCHANGED pat

\* ----------------------------------------------------------- KeypadHandler
\* the keys of the keypad: button_mapping sends KEY_BACKSPACE to poofer 1
Keys == {"KEY_ESC", "KEY_BACKSPACE", "KEY_KP0"}

ButtonMapping(keycode) == IF keycode = "KEY_BACKSPACE" THEN Some(1) ELSE None

\* `list(range(1, 8))` of KEY_KP0, as far as the channel table goes and one
\* id beyond it
AllButtons == <<1, 2, UnknownId>>

InitKeypad == held = {}

\* _read_keyboard -> _on_key_press(keycode): a mapped key fires its poofer
\* with no duration, KEY_ESC calls emergency_stop(), KEY_KP0 fire_multiple
OnKeyPress(keycode) ==
    /\ keycode \notin held
    /\ held' = held \cup {keycode}
    /\ CASE ButtonMapping(keycode) # None ->
              FirePoofer("keypad", TheVal(ButtonMapping(keycode)), <<>>)
         [] keycode = "KEY_ESC" -> EmergencyStop("keypad")
         [] keycode = "KEY_KP0" -> FireMultiple("keypad", AllButtons, <<>>)

\* _read_keyboard -> _on_key_release(keycode): a mapped key stops its poofer,
\* KEY_ESC calls reset_emergency_stop(), KEY_KP0 stop_all()
OnKeyRelease(keycode) ==
    /\ keycode \in held
    /\ held' = held \ {keycode}
    /\ CASE ButtonMapping(keycode) # None ->
              StopPoofer("keypad", TheVal(ButtonMapping(keycode)))
         [] keycode = "KEY_ESC" -> ResetEmergencyStop("keypad")
         [] keycode = "KEY_KP0" -> StopAll("keypad")

\* ------------------------------------------------------------- AxofuegoApp
InitMain == shpc = "run"

\* main(): the shutdown event is set (signal handler) or start() raises, and
\* the `finally` runs shutdown()
ShutdownBegins ==
    /\ shpc = "run"
    /\ EngineIdle
    /\ shpc' = "pattern"

\* shutdown(): self.pattern_engine.stop()
ShutdownPattern ==
    /\ shpc = "pattern"
    /\ Stop \/ StopIdle
    /\ shpc' = "web"

\* shutdown(): await self.web_server.stop(), which returns (ok) or raises
ShutdownWeb(ok) ==
    /\ shpc = "web"
    /\ EngineIdle
    /\ shpc' = IF ok THEN "static" ELSE "raised"

\* shutdown(): self.static_server.stop()
ShutdownStatic ==
    /\ shpc = "static"
    /\ EngineIdle
    /\ shpc' = "keypad"

\* shutdown(): self.keypad_handler.stop() inside try / except Exception
ShutdownKeypad ==
    /\ shpc = "keypad"
    /\ EngineIdle
    /\ shpc' = "stop_all"

\* shutdown(): self.pyro_engine.stop_all()
ShutdownStopAll ==
    /\ shpc = "stop_all"
    /\ StopAll("main")
    /\ shpc' = "cleanup"

\* shutdown(): self.pyro_engine.cleanup(), its stop_all() and the
\* poofer.cleanup() of every channel, which is stop() again
ShutdownCleanup ==
    /\ shpc = "cleanup"
    /\ LoopFree
    /\ eop' = EngineOp("cleanup", "main", StopAllCalls \o StopAllCalls, <<>>, 0)
    /\ shpc' = "release"
    /\ UNCHANGED <<chanVars, timerVars, callVars, now>>
    /\ UNCHANGED <<emergencyStop, lastActivity, wdNext, sinceCmd, tripStops, tripDone>>

\* an engine call of shutdown() returns, or raises and ends shutdown()
ShutdownEngineDone ==
    /\ EngineDone("main")
    /\ shpc' = IF eop.res = <<"exc">> THEN "raised" ELSE shpc
    /\ UNCHANGED wdNext

\* PyroEngine.cleanup(): self.gpio_interface.cleanup() forgets the pins, so
\* every later set_pin raises; then self.pattern_engine.cleanup(), the stop()
\* of an engine that is not playing
ShutdownRelease ==
    /\ shpc = "release"
    /\ LoopFree
    /\ pin' = [c \in PooferIds |-> FALSE]
    /\ pinSince' = [c \in PooferIds |-> 0]
    /\ wfail' = BOOLEAN
    /\ shpc' = "done"
    /\ UNCHANGED <<isActive, endTime, timer, tmState, tmDue, tmCh, tpc>>
    /\ UNCHANGED <<tmLimit, horizon, recycle, callVars, now, engVars>>

\* ------------------------------------------------------------- the program
InitProgram ==
    /\ InitPoofers /\ InitEngine /\ InitWeb /\ InitSeq /\ InitPattern /\ InitData
    /\ InitKeypad /\ InitMain

\* -------------------------------------------- specification: the engine
\* the duration arguments of this specification: none (the default) and one
\* inside the accepted range
EngineArgs == {<<>>, <<1>>}

\* Any command source calls the engine's methods; the safety monitor runs.
NextEngine ==
    \/ \E id \in PooferIds \cup {UnknownId}, arg \in EngineArgs :
          FirePoofer("api", id, arg) /\ UNCHANGED appVars
    \/ \E ids \in IdLists, arg \in EngineArgs : FireMultiple("api", ids, arg) /\ UNCHANGED appVars
    \/ \E id \in PooferIds \cup {UnknownId} : StopPoofer("api", id) /\ UNCHANGED appVars
    \/ StopAll("api") /\ UNCHANGED appVars
    \/ EmergencyStop("api") /\ UNCHANGED appVars
    \/ ResetEmergencyStop("api") /\ UNCHANGED appVars
    \/ EngineDispatch /\ UNCHANGED appVars
    \/ EngineCollect /\ UNCHANGED appVars
    \/ EngineDone("api") /\ UNCHANGED <<wdNext, appVars>>
    \/ StartSafetyMonitor /\ UNCHANGED appVars
    \/ MonitorWake /\ UNCHANGED appVars
    \/ MonitorSleep /\ UNCHANGED appVars
    \/ PooferStep /\ UNCHANGED <<engVars, appVars>>
    \/ EngineTick /\ UNCHANGED appVars

InitEngineSpec ==
    InitProgram /\ tmLimit = MaxTimers /\ horizon = EngineTime /\ recycle = FALSE /\ wfail = {}

SpecEngine == InitEngineSpec /\ [][NextEngine]_vars

\* ------------------------------------- specification: the WebSocket handlers
\* Two connections to the stalk, `all` and `control` endpoints.
NextWeb ==
    \/ \E h \in Conns, ep \in Endpoints : Connect(h, ep) /\ UNCHANGED <<seqVars, patVars, dataVars, keyVars, mainVars>>
    \/ \E h \in Conns, msg \in ControlMsgs :
          ControlMessage(h, msg) /\ UNCHANGED <<seqVars, patVars, dataVars, keyVars, mainVars>>
    \/ \E h \in Conns : HandlerReturn(h) /\ UNCHANGED <<seqVars, patVars, dataVars, keyVars, mainVars>>
    \/ \E h \in Conns, how \in Ends : HandlerEnd(h, how) /\ UNCHANGED <<seqVars, patVars, dataVars, keyVars, mainVars>>
    \/ WebDispatch /\ UNCHANGED <<seqVars, patVars, dataVars, keyVars, mainVars>>
    \/ WebCollect /\ UNCHANGED <<seqVars, patVars, dataVars, keyVars, mainVars>>
    \/ PooferStep /\ UNCHANGED <<engVars, appVars>>
    \/ EngineTick /\ UNCHANGED appVars

InitWebSpec ==
    /\ InitProgram
    /\ tmLimit = MaxTimers
    /\ horizon = MaxDuration
    /\ recycle = FALSE
    /\ wfail = {}

SpecWeb == InitWebSpec /\ [][NextWeb]_vars

\* ------------------------------------- specification: the engine's latch
\* The engine's commands on channel 1 alone, without the safety monitor.
NextLatch ==
    \/ \E id \in {1, UnknownId}, arg \in DurationArgs : FirePoofer("api", id, arg)
          /\ UNCHANGED appVars
    \/ \E ids \in {<<1>>, <<UnknownId, 1>>}, arg \in DurationArgs :
          FireMultiple("api", ids, arg) /\ UNCHANGED appVars
    \/ StopPoofer("api", 1) /\ UNCHANGED appVars
    \/ StopAll("api") /\ UNCHANGED appVars
    \/ EmergencyStop("api") /\ UNCHANGED appVars
    \/ ResetEmergencyStop("api") /\ UNCHANGED appVars
    \/ EngineDispatch /\ UNCHANGED appVars
    \/ EngineCollect /\ UNCHANGED appVars
    \/ EngineDone("api") /\ UNCHANGED <<wdNext, appVars>>
    \/ PooferStep /\ UNCHANGED <<engVars, appVars>>
    \/ EngineTick /\ UNCHANGED appVars

SpecLatch == InitEngineSpec /\ [][NextLatch]_vars

\* --------------------------------- specification: a failing pin driver
\* The engine's commands on channel 1, with a pin driver whose writes of one
\* value raise: set_pin(pin, True) in one run, set_pin(pin, False) in another.
NextFault ==
    \/ \E id \in {1, UnknownId}, arg \in DurationArgs : FirePoofer("api", id, arg)
          /\ UNCHANGED appVars
    \/ StopPoofer("api", 1) /\ UNCHANGED appVars
    \/ StopAll("api") /\ UNCHANGED appVars
    \/ EmergencyStop("api") /\ UNCHANGED appVars
    \/ ResetEmergencyStop("api") /\ UNCHANGED appVars
    \/ EngineDispatch /\ UNCHANGED appVars
    \/ EngineCollect /\ UNCHANGED appVars
    \/ EngineDone("api") /\ UNCHANGED <<wdNext, appVars>>
    \/ PooferStep /\ UNCHANGED <<engVars, appVars>>
    \/ EngineTick /\ UNCHANGED appVars

InitFault ==
    /\ InitProgram
    /\ tmLimit = MaxTimers
    /\ horizon = EngineTime
    /\ recycle = FALSE
    /\ wfail \in {{TRUE}, {FALSE}}

SpecFault == InitFault /\ [][NextFault]_vars

\* ------------------------------------------- specification: the keypad
\* The keypad is the only command source: keys go down and up, one event
\* handler at a time.
NextKeypad ==
    \/ \E keycode \in Keys : OnKeyPress(keycode)
          /\ UNCHANGED <<connVars, seqVars, patVars, dataVars, mainVars>>
    \/ \E keycode \in Keys : OnKeyRelease(keycode)
          /\ UNCHANGED <<connVars, seqVars, patVars, dataVars, mainVars>>
    \/ EngineDispatch /\ UNCHANGED appVars
    \/ EngineCollect /\ UNCHANGED appVars
    \/ EngineDone("keypad") /\ UNCHANGED <<wdNext, appVars>>
    \/ PooferStep /\ UNCHANGED <<engVars, appVars>>
    \/ EngineTick /\ UNCHANGED appVars

InitKeypadSpec ==
    /\ InitProgram
    /\ tmLimit = MaxTimers
    /\ horizon = MaxDuration
    /\ recycle = FALSE
    /\ wfail = {}

SpecKeypad == InitKeypadSpec /\ [][NextKeypad]_vars

\* ------------------------------------------- specification: shutdown
\* A command source fires channel 1 while the application runs; then main()
\* shuts down.  No pattern plays.
NextMain ==
    \/ \E arg \in DurationArgs : shpc = "run" /\ FirePoofer("api", 1, arg)
          /\ UNCHANGED appVars
    \/ EngineDone("api") /\ UNCHANGED <<wdNext, appVars>>
    \/ ShutdownBegins /\ UNCHANGED <<connVars, seqVars, patVars, dataVars, keyVars>>
    \/ ShutdownPattern /\ UNCHANGED <<connVars, seqVars, dataVars, keyVars>>
    \/ \E ok \in BOOLEAN :
          ShutdownWeb(ok) /\ UNCHANGED <<connVars, seqVars, patVars, dataVars, keyVars>>
    \/ ShutdownStatic /\ UNCHANGED <<connVars, seqVars, patVars, dataVars, keyVars>>
    \/ ShutdownKeypad /\ UNCHANGED <<connVars, seqVars, patVars, dataVars, keyVars>>
    \/ ShutdownStopAll /\ UNCHANGED <<connVars, seqVars, patVars, dataVars, keyVars>>
    \/ ShutdownCleanup /\ UNCHANGED <<connVars, seqVars, patVars, dataVars, keyVars>>
    \/ ShutdownEngineDone /\ UNCHANGED <<connVars, seqVars, patVars, dataVars, keyVars>>
    \/ ShutdownRelease /\ UNCHANGED <<connVars, seqVars, patVars, dataVars, keyVars>>
    \/ EngineDispatch /\ UNCHANGED appVars
    \/ EngineCollect /\ UNCHANGED appVars
    \/ PooferStep /\ UNCHANGED <<engVars, appVars>>
    \/ EngineTick /\ UNCHANGED appVars

InitMainSpec ==
    /\ InitProgram
    /\ tmLimit = MaxTimers
    /\ horizon = MaxDuration
    /\ recycle = FALSE
    /\ wfail = {}

SpecMain == InitMainSpec /\ [][NextMain]_vars

\* ----------------------------- specification: a pattern and a command source
\* A command source fires channel 1 while a caller plays patterns and the
\* playback task runs.
NextShow ==
    \/ \E arg \in DurationArgs : FirePoofer("api", 1, arg) /\ UNCHANGED appVars
    \/ EngineDone("api") /\ UNCHANGED <<wdNext, appVars>>
    \/ \E arg \in {None} \cup {Some(p) : p \in Patterns} :
          Play(arg) /\ UNCHANGED <<connVars, seqVars, dataVars, keyVars, mainVars>>
    \/ PlaybackLoop /\ UNCHANGED <<connVars, seqVars, dataVars, keyVars, mainVars>>
    \/ EngineDone("pattern") /\ UNCHANGED <<wdNext, appVars>>
    \/ EngineDispatch /\ UNCHANGED appVars
    \/ EngineCollect /\ UNCHANGED appVars
    \/ PooferStep /\ UNCHANGED <<engVars, appVars>>
    \/ EngineTick /\ UNCHANGED appVars

InitShowSpec ==
    /\ InitProgram
    /\ tmLimit = MaxTimers
    /\ horizon = EngineTime
    /\ recycle = FALSE
    /\ wfail = {}

SpecShow == InitShowSpec /\ [][NextShow]_vars

\* --------------------------------- specification: the sequence1 handler
\* One connection to the sequence1 endpoint.  The run goes on without end, so
\* Timer objects that have ended are reclaimed; the clock stays at 0, all
\* delays being shorter than the time unit.  The event loop runs what is
\* ready and every timer thread gets to run: weak fairness of both.
LoopStep ==
    \/ \E t \in Tasks : TaskFire(t) /\ UNCHANGED <<connVars, patVars, dataVars, keyVars, mainVars>>
    \/ \E t \in Tasks : TaskWake(t) /\ UNCHANGED <<connVars, patVars, dataVars, keyVars, mainVars>>
    \/ \E t \in Tasks : TaskReturn(t) /\ UNCHANGED <<connVars, patVars, dataVars, keyVars, mainVars>>
    \/ SeqPause /\ UNCHANGED <<chanVars, timerVars, callVars, now, engVars, connVars, patVars, dataVars, keyVars, mainVars>>
    \/ SeqAgain /\ UNCHANGED <<chanVars, timerVars, callVars, now, engVars, connVars, patVars, dataVars, keyVars, mainVars>>
    \/ EngineDispatch /\ UNCHANGED appVars
    \/ EngineCollect /\ UNCHANGED appVars
    \/ \E t \in Callers : CallerStep(t) /\ UNCHANGED <<engVars, appVars>>

TimerThread(k) == (TimerExpire(k) \/ TimerStep(k)) /\ UNCHANGED <<engVars, appVars>>

NextSequence ==
    \/ SeqConnect /\ UNCHANGED <<chanVars, timerVars, callVars, now, engVars, connVars, patVars, dataVars, keyVars, mainVars>>
    \/ SeqClose /\ UNCHANGED <<chanVars, timerVars, callVars, now, engVars, connVars, patVars, dataVars, keyVars, mainVars>>
    \/ LoopStep
    \/ \E k \in Timers : TimerThread(k)

InitSequence ==
    InitProgram /\ tmLimit = MaxTimers /\ horizon = 0 /\ recycle = TRUE /\ wfail = {}

SpecSequence ==
    /\ InitSequence
    /\ [][NextSequence]_vars
    /\ WF_vars(LoopStep)
    /\ \A k \in Timers : WF_vars(TimerThread(k))

\* ------------------------------------- specification: the pattern engine
\* Any caller loads, plays, stops, pauses and repositions patterns; the
\* playback task runs.  Nothing else commands the channels.
NextPattern ==
    \/ \E p \in Patterns : LoadPattern(p) /\ UNCHANGED <<connVars, seqVars, dataVars, keyVars, mainVars>>
    \/ \E arg \in {None} \cup {Some(p) : p \in Patterns} :
          Play(arg) /\ UNCHANGED <<connVars, seqVars, dataVars, keyVars, mainVars>>
    \/ PlayRejected /\ UNCHANGED <<connVars, seqVars, dataVars, keyVars, mainVars>>
    \/ Stop /\ UNCHANGED <<connVars, seqVars, dataVars, keyVars, mainVars>>
    \/ StopIdle /\ UNCHANGED <<connVars, seqVars, dataVars, keyVars, mainVars>>
    \/ Pause /\ UNCHANGED <<connVars, seqVars, dataVars, keyVars, mainVars>>
    \/ Resume /\ UNCHANGED <<connVars, seqVars, dataVars, keyVars, mainVars>>
    \/ \E tick \in (-1)..MaxTicks : SetTick(tick) /\ UNCHANGED <<connVars, seqVars, dataVars, keyVars, mainVars>>
    \/ PlaybackLoop /\ UNCHANGED <<connVars, seqVars, dataVars, keyVars, mainVars>>
    \/ LostPlaybackLoop /\ UNCHANGED <<connVars, seqVars, dataVars, keyVars, mainVars>>
    \/ \E tick \in 0..(MaxTicks - 1) : AddEventLoaded(tick) /\ UNCHANGED <<connVars, seqVars, dataVars, keyVars, mainVars>>
    \/ EngineDispatch /\ UNCHANGED appVars
    \/ EngineCollect /\ UNCHANGED appVars
    \/ EngineDone("pattern") /\ UNCHANGED <<wdNext, appVars>>
    \/ \E t \in Callers : Acquire(t) /\ UNCHANGED <<engVars, appVars>>
    \/ \E t \in Callers : StopCheck(t) /\ UNCHANGED <<engVars, appVars>>

InitPatternSpec ==
    InitProgram /\ tmLimit = MaxTimers /\ horizon = 0 /\ recycle = FALSE /\ wfail = {}

SpecPattern == InitPatternSpec /\ [][NextPattern]_vars

\* ------------------------------------------- specification: the Pattern
\* A caller constructs a Pattern, adds and removes events, and serializes it.
NextData ==
    \/ \E events \in EventLists, length_ticks \in 0..MaxTicks, loop \in BOOLEAN :
          Construct(events, length_ticks, loop) /\ UNCHANGED otherVars
    \/ \E e \in FireEvents : DoAddEvent(e) /\ UNCHANGED otherVars
    \/ \E poofer_id \in PooferIds, tick \in 0..(MaxTicks - 1) :
          DoRemoveEvent(poofer_id, tick) /\ UNCHANGED otherVars
    \/ RoundTrip /\ UNCHANGED otherVars

SpecData == InitPatternSpec /\ [][NextData]_vars

\* the same for a pattern that is built by add_event and remove_event alone
NextAuthor ==
    \/ \E e \in FireEvents : DoAddEvent(e) /\ UNCHANGED otherVars
    \/ \E poofer_id \in PooferIds, tick \in 0..(MaxTicks - 1) :
          DoRemoveEvent(poofer_id, tick) /\ UNCHANGED otherVars
    \/ RoundTrip /\ UNCHANGED otherVars

SpecAuthor == InitPatternSpec /\ [][NextAuthor]_vars

\* ------------------------------------------- specification: one channel
\* Two threads call fire, stop and is_active on channel 1 in any order.
Methods == {"fire", "stop", "is_active"}

NextChannel ==
    \/ \E t \in Callers, m \in Methods, arg \in DurationArgs :
          Call(t, m, 1, arg) /\ UNCHANGED <<engVars, appVars>>
    \/ \E t \in Callers : CallerStep(t) /\ UNCHANGED <<engVars, appVars>>
    \/ \E t \in Callers : Return(t) /\ UNCHANGED <<engVars, appVars>>
    \/ \E k \in Timers : TimerExpire(k) /\ UNCHANGED <<engVars, appVars>>
    \/ \E k \in Timers : TimerStep(k) /\ UNCHANGED <<engVars, appVars>>
    \/ Tick /\ UNCHANGED <<engVars, appVars>>

InitChannel ==
    InitProgram /\ tmLimit = MaxTimers /\ horizon = MaxTime /\ recycle = FALSE /\ wfail = {}

SpecChannel == InitChannel /\ [][NextChannel]_vars

\* the same, with one more Timer object: room for a stale timer thread, the
\* pulse it corrupts and a third fire
InitRace ==
    InitProgram /\ tmLimit = MaxTimers + 1 /\ horizon = EngineTime /\ recycle = FALSE /\ wfail = {}

SpecRace == InitRace /\ [][NextChannel]_vars

\* ------------------------------------------------- properties: one channel
\* no thread is inside a Poofer method of channel c
Settled(c) ==
    /\ \A t \in Callers : InCall(t) => cop[t].ch # c
    /\ \A k \in Timers : tmState[k] \in {"created", "running"} => tmCh[k] # c

\* C1 (bounded pulse): an energized pin has been energized for at most
\* max_duration, whatever duration the accepted fire asked for (more than
\* max_duration, none at all) and although nobody calls stop.
C1_BoundedPulse ==
    \A c \in PooferIds : pin[c] => now - pinSince[c] <= MaxDuration

\* C2: whenever no thread is inside a method of the channel, the channel is
\* Firing (_is_active) if and only if its pin is energized.
C2_FiringIffEnergized ==
    \A c \in PooferIds : Settled(c) => (isActive[c] <=> pin[c])

\* C5 (single ownership): a fire is accepted only when no earlier accepted
\* pulse of the channel is still running, that is not stopped and before its
\* deadline; so of two overlapping fires one is rejected.
C5_SingleOwnership ==
    \A c \in PooferIds : ~stolen[c]

\* the stop actions of channel c that are outstanding: Timer threads started,
\* neither cancelled nor expired
Outstanding(c) ==
    {k \in Timers : tmCh[k] = c /\ tmState[k] = "waiting"}

\* C19: for each channel at most one stop action (timer) is outstanding at any
\* time, because every fire and every stop cancels the previous one.
C19_OneStopAction ==
    \A c \in PooferIds : Cardinality(Outstanding(c)) <= 1

\* the step is one by the thread of Timer k and it cuts short the pulse of a
\* fire that was accepted after the stop and has armed Timer j: it cancels j,
\* or it de-energizes the pin before j is due
CutsShort(k) ==
    /\ tmState[k] = "running"
    /\ tpc'[k] # tpc[k]
    /\ \E j \in Timers \ {k} :
          /\ ~stale[j]
          /\ tmCh[j] = tmCh[k]
          /\ tmState[j] = "waiting"
          /\ \/ tmState'[j] = "done"
             \/ pin[tmCh[k]] /\ ~pin'[tmCh[k]] /\ now < tmDue[j]

\* C20: an explicit stop cancels the channel's one-shot stop action: once
\* stop() has returned True, the timer armed by the earlier fire never cuts a
\* later accepted fire of the channel short (pin de-energized, or that fire's
\* own timer cancelled), however the timer thread interleaves with stop and
\* fire.
C20_StopCancelsTimer ==
    [][\A k \in Timers : stale[k] => ~CutsShort(k)]_vars

\* the step is fire's assignment of _end_time by caller t
RecordsDeadline(t) == cpc[t] = "f_end" /\ cpc'[t] = "f_tmr"

\* C31: for every requested duration, negative ones included, the duration an
\* accepted fire uses lies in [0, max_duration]: the stop-deadline it records
\* is not earlier than the time of the fire and not later than that time plus
\* max_duration.
C31_ClampedDuration ==
    [][\A t \in Callers : RecordsDeadline(t) =>
          \E e \in endTime'[cop[t].ch] : now <= e /\ e <= now + MaxDuration]_vars

\* the step is one of _stop_fire, called by is_active of caller t because the
\* stop-deadline of a Firing channel has passed
Reconciles(t) ==
    /\ cop[t].m = "is_active"
    /\ cpc[t] \in StopFireLabels
    /\ cpc'[t] # cpc[t]

\* C32 (lazy reconciliation): an is_active() call that finds the channel
\* Firing with its stop-deadline passed does not raise, and when it returns
\* the channel is Idle, its pin de-energized and its timer cleared, and the
\* result is false.
C32_LazyReconciliation ==
    [][\A t \in Callers : Reconciles(t) =>
          /\ cres'[t] # "exc"
          /\ cpc'[t] = "ret" =>
                /\ cres'[t] = "false"
                /\ ~isActive'[cop[t].ch]
                /\ ~pin'[cop[t].ch]
                /\ timer'[cop[t].ch] = None]_vars

\* C35: whenever a channel's pin is energized (and no thread is inside a
\* method of the channel), a stop action for the channel is armed or its
\* stop-deadline is recorded for lazy reconciliation: no interleaving of fire,
\* stop, is_active and the timer thread leaves a pin energized with nothing
\* scheduled to close it.
C35_EnergizedHasStop ==
    \A c \in PooferIds :
        (pin[c] /\ Settled(c)) => (Outstanding(c) # {} \/ endTime[c] # None)

\* C36: a channel never gets stuck in Firing: a channel that reports active
\* (and that no thread is inside) has a stop action armed or a stop-deadline
\* recorded, so that it becomes Idle without an external stop; no interleaving
\* of the timer thread's _stop_fire with a fire leaves _is_active true with no
\* timer and no stop-deadline.
C36_NeverStuck ==
    \A c \in PooferIds :
        (isActive[c] /\ Settled(c)) => (Outstanding(c) # {} \/ endTime[c] # None)

\* ------------------------------------------------- properties: the engine
\* C3 (emergency latch): a fire_poofer or fire_multiple call made while the
\* latch is set makes no Poofer call and returns rejection for every id it
\* was given; and while the latch is set, stop_all has been called since it
\* was set.
C3_EmergencyLatch ==
    /\ (eop.op \in {"fire_poofer", "fire_multiple"} /\ eop.latched) =>
          /\ eop.todo = <<>>
          /\ eop.res = [i \in 1..eop.n |-> "false"]
    /\ emergencyStop => tripStops

\* emergency_stop() has returned, channel 1 is Idle, and a fire_multiple of
\* two ids is being answered
C3_Witness ==
    /\ tripDone
    /\ eop.op = "fire_multiple" /\ eop.latched /\ eop.n = 2
    /\ eop.res = <<"false", "false">>
    /\ ~isActive[1] /\ ~pin[1]

\* C4: once emergency_stop() has returned and until the reset, a channel
\* that no thread is inside is neither Firing nor energized.
C4_LatchedMeansDark ==
    tripDone => \A c \in PooferIds : Settled(c) => (~isActive[c] /\ ~pin[c])

\* C9 (watchdog): with the safety monitor started, when the last fire command
\* is more than auto_shutoff_timeout old and the monitor has made its check
\* for this period (no thread is running, no timer is due, the monitor
\* sleeps), no channel is Firing.
C9_Watchdog ==
    (wdNext # None /\ TickReady /\ sinceCmd > AutoShutoff) =>
        \A c \in PooferIds : ~isActive[c]

\* the step is a call of fire_poofer that has no Poofer call to make although
\* the latch is clear: the id is not in self.poofers
UnknownIdFire ==
    /\ eop.op = "none"
    /\ eop'.op = "fire_poofer"
    /\ eop'.todo = <<>>
    /\ ~emergencyStop

\* C23: fire_poofer with an id that is not in the channel table is rejected
\* and changes nothing: no channel state, no pin, no timer, not the emergency
\* latch and not last_activity.
C23_UnknownIdRejected ==
    [][UnknownIdFire =>
          /\ eop'.res = <<"false">>
          /\ UNCHANGED <<chanVars, tmState, timer, emergencyStop, lastActivity>>]_vars

\* fire_poofer has rejected an unknown id at a time later than last_activity:
\* no fire was ever accepted, so the rejection is not one of a busy channel
C23_Witness ==
    /\ eop.op = "fire_poofer"
    /\ eop.todo = <<>>
    /\ eop.res = <<"false">>
    /\ ~eop.latched
    /\ \A k \in Timers : tmState[k] = "unused"
    /\ \A c \in PooferIds : ~isActive[c]
    /\ now > lastActivity

\* C24: fire_multiple(ids, d) attempts the ids in the listed order and returns
\* a result list of the same length, true at the positions of the known
\* channels it fired and false at those of unknown or busy ids, which do not
\* keep the remaining ids from being attempted.
C24_PerIdResults ==
    (eop.op = "fire_multiple" /\ eop.todo = <<>> /\ cpc[1] = "idle") =>
        /\ Len(eop.res) = eop.n
        /\ \A i \in 1..Len(eop.res) : eop.res[i] \in {"true", "false"}

\* a fire_poofer or fire_multiple call is over and has accepted no id
NoneAccepted ==
    /\ eop.op \in {"fire_poofer", "fire_multiple"}
    /\ eop.todo = <<>>
    /\ cpc[1] = "idle"
    /\ \A i \in 1..Len(eop.res) : eop.res[i] = "false"

\* C25: last_activity is the time of the last accepted fire command: a
\* fire_poofer rejected as busy and a fire_multiple in which no id was
\* accepted leave last_activity as it was.
C25_RejectedKeepsActivity ==
    NoneAccepted => lastActivity = eop.was

\* the step is one of a stop_poofer or stop_all call: the call itself, one of
\* its Poofer.stop calls or a statement of them, or its return
StopStep ==
    /\ \/ eop.op \in {"stop_poofer", "stop_all"}
       \/ eop'.op \in {"stop_poofer", "stop_all"}
    /\ eop' # eop \/ cpc' # cpc

\* every channel is Idle and the call is not inside _stop_fire
AllIdle ==
    /\ \A c \in PooferIds : ~isActive[c]
    /\ cpc[1] \notin StopFireLabels

\* C26: stop_poofer(id) and stop_all() change only channel state and pins:
\* they leave the emergency latch and last_activity as they were, and
\* stop_all on an engine whose channels are all Idle changes nothing.
C26_StopFrame ==
    [][StopStep =>
          /\ UNCHANGED <<emergencyStop, lastActivity>>
          /\ AllIdle => UNCHANGED <<chanVars, tmState>>]_vars

\* stop_all() has called stop on the last channel and found every channel
\* Idle, after a pulse has been ended, while the latch is set and time has
\* passed since last_activity
C26_Witness ==
    /\ eop.op = "stop_all"
    /\ eop.todo = <<>>
    /\ cpc[1] = "ret"
    /\ cop[1].ch = 2
    /\ \A c \in PooferIds : ~isActive[c] /\ ~pin[c]
    /\ \E k \in Timers : tmState[k] = "done"
    /\ emergencyStop
    /\ now > lastActivity

\* the step is the call of reset_emergency_stop
ResetStep == eop.op = "none" /\ eop'.op = "reset_emergency_stop"

\* C27: reset_emergency_stop() only clears the latch: every channel that was
\* Idle before the reset is Idle after it and no pin is energized by it.
C27_ResetOnlyClears ==
    [][ResetStep =>
          /\ ~emergencyStop'
          /\ \A c \in PooferIds : (~isActive[c] => ~isActive'[c]) /\ (pin'[c] => pin[c])
          /\ UNCHANGED <<timer, tmState>>]_vars

\* reset_emergency_stop() has cleared a latch that was set, while channel 1,
\* closed by the emergency stop, is Idle with its pin de-energized
C27_Witness ==
    /\ eop.op = "reset_emergency_stop"
    /\ eop.latched
    /\ ~emergencyStop
    /\ ~isActive[1] /\ ~pin[1]
    /\ \E k \in Timers : tmCh[k] = 1 /\ tmState[k] = "done"

\* ----------------------------------------- properties: the WebSocket handlers
\* no thread is inside a method of channel c or about to hand its result to
\* the engine, and no timer of c is due
AtRest(c) ==
    /\ Settled(c)
    /\ \A t \in Callers : cpc[t] = "ret" => cop[t].ch # c
    /\ \A k \in Timers : tmCh[k] = c => ~TimerDue(k)

\* C6 (fail-safe release): once the handler of a stalk or `all` connection
\* has ended, however the connection ended, a channel whose last accepted
\* fire was this handler's is Idle and its pin is de-energized (as soon as no
\* thread is inside the channel).
C6_FailSafeRelease ==
    \A h \in Conns :
        (hpc[h] \in {"done", "dropped"} /\ hep[h].kind \in {"stalk", "all"}) =>
            \A c \in PooferIds :
                (owner[c] = h /\ AtRest(c)) => (~isActive[c] /\ ~pin[c])

\* C7: once the `control` handler has ended, on a clean close as on a
\* transport error, no channel whose last accepted fire came through this
\* connection is Firing: stop_all() has run.
C7_ControlCloseStops ==
    \A h \in Conns :
        (hep[h].kind = "control" /\ hpc[h] \in {"done", "dropped"}
         /\ hend[h] \in {"clean", "abrupt", "error"}) =>
            \A c \in PooferIds : (owner[c] = h /\ AtRest(c)) => ~isActive[c]

\* the step in which the cleanup of a stalk handler returns: the
\* stop_poofer(poofer_id) of its `finally` is over
CleanupReturns(h) ==
    hep[h].kind = "stalk" /\ hpc[h] = "cleanup" /\ hpc'[h] = "done"

\* C40: the cleanup of one command source closes the channel regardless of
\* which source opened it: when the cleanup of a per-channel connection has
\* returned, the channel is Idle and its pin de-energized (as soon as no thread
\* is inside the channel), whether the handler's own fire was accepted,
\* rejected as busy or the pulse belongs to another source.
C40_CleanupClosesChannel ==
    [][\A h \in Conns : CleanupReturns(h) =>
          (AtRest(hep[h].id)' =>
              (~isActive'[hep[h].id] /\ ~pin'[hep[h].id]))]_vars

\* ------------------------------------------ properties: the sequence handler
\* the handler has ended and no _ignition_timer task of it is left
SeqOver == spc = "failed" /\ \A t \in Tasks : stask[t] = "finished"

\* C8: once the client connection of a preset-sequence endpoint has closed,
\* the handler eventually stops issuing fire commands and terminates
C8_StopsAfterClose == (sconn = "closed") ~> SeqOver

\* -------------------------------------------- properties: the pattern engine
\* C10: in a playing run of a loop=false pattern started by play() at tick 0
\* and not touched by another method, the playback task ends only after it
\* has processed every tick in order (current_tick = length_ticks), and the
\* scheduler is then stopped (is_playing false)
C10_SchedulerMonotone ==
    (pRun /\ pTask \in {"ended", "failed"}) =>
        (pTick = TheVal(pPattern).len /\ ~pPlaying)

\* C11: while a loop=true pattern is Playing its ticks go on being processed,
\* 0 .. length_ticks - 1 again and again: the playback task that processes
\* them is alive in every state in which the scheduler is Playing
C11_LoopKeepsRunning ==
    (pPlaying /\ pPattern # None /\ TheVal(pPattern).loop) => pTask = "created"

\* C13: a stop() of the scheduler, once a playback was started, leaves it
\* Stopped and has invoked engine.stop_all(), also after the pattern ended
\* on its own or after a pause
C13_StopStopsAll == (pLast = "stop" /\ pTask # "none") => (~pPlaying /\ pStopAll)

\* C14: resume() after pause() returns the scheduler to Playing, at the
\* current_tick that the pause retained
C14_PauseResume ==
    [][(pLast = "pause" /\ pLast' = "resume") => (pPlaying' /\ pTick' = pTick)]_vars

\* C16: after load_pattern(p) / play(p), add_event and remove_event calls on
\* the caller's p do not change the pattern the scheduler holds
C16_SnapshotIsolation == pPattern = pSnap

\* the step is a play() that returns False
RejectedPlay == pLast # "play_false" /\ pLast' = "play_false"

\* C34: play() with no pattern loaded is rejected and leaves the scheduler
\* Stopped with no playback task created, so that without a pattern the
\* scheduler is never Playing and has no task; play() while Playing is
\* rejected, stays Playing and creates no second playback task.
C34_PlayRejected ==
    [][/\ pPattern' = None => (~pPlaying' /\ pTask' = "none")
       /\ RejectedPlay => UNCHANGED <<pPattern, pPlaying, pTick, pTask>>]_vars

\* play() has been rejected while Playing, the playback task of the accepted
\* play() not yet run
C34_Witness == pLast = "play_false" /\ pPlaying /\ pTask = "created"

\* the playback tasks that are alive: created, neither ended nor cancelled
LiveTasks == pLost + (IF pTask = "created" THEN 1 ELSE 0)

C38_TickInRange ==
    pPattern # None => (0 <= pTick /\ pTick <= TheVal(pPattern).len)

\* set_tick has moved the position to the last tick of a loaded pattern and a
\* playback task has ended since
C38_Witness ==
    /\ pPattern # None
    /\ pLast = "set_tick"
    /\ pTick > 0
    /\ pTick = TheVal(pPattern).len - 1
    /\ pTask \in {"ended", "failed"}

\* C39: is_playing reflects a live playback loop: whenever the playback task
\* has ended (it returned, raised or was cancelled), is_playing is false.
C39_PlayingMeansAlive ==
    pTask \in {"ended", "failed", "cancelled"} => ~pPlaying

\* ------------------------------------------------- properties: the Pattern
\* two patterns with the same name, length_ticks, loop flag and set of events
SamePattern(p, q) ==
    /\ p.name = q.name
    /\ p.length_ticks = q.length_ticks
    /\ p.loop = q.loop
    /\ {p.events[i] : i \in 1..Len(p.events)} = {q.events[i] : i \in 1..Len(q.events)}

\* C17: Pattern.from_dict(p.to_dict()) has the same name, length_ticks, loop
\* flag and set of events as p, for every Pattern p
C17_RoundTrip == \A q \in rt : SamePattern(q, pat)

\* C18: a pattern holds at most one event for each (poofer_id, tick), so
\* get_events_at_tick never returns two events for the same channel
C18_OneEventPerSlot ==
    \A tick \in 0..(MaxTicks - 1) :
        LET es == GetEventsAtTick(pat, tick) IN
          \A i, j \in 1..Len(es) : es[i].poofer_id = es[j].poofer_id => i = j


\* ------------------------------------------ properties: a failing pin driver
\* C21: when the pin driver's write fails during fire, the channel stays Idle:
\* it is not marked active, no stop deadline is recorded and no stop action is
\* armed.
C21_FailedFireStaysIdle ==
    \A c \in PooferIds :
        (TRUE \in wfail /\ Settled(c)) =>
            (~isActive[c] /\ endTime[c] = None /\ Outstanding(c) = {})

\* a stop_poofer or stop_all call is leaving the engine with the exception of
\* a failing set_pin(pin, False)
StopWriteFailed ==
    /\ FALSE \in wfail
    /\ eop.op \in {"stop_poofer", "stop_all"}
    /\ eop.res = <<"exc">>

\* C22: when the pin driver's write fails while a channel is stopped, the
\* channel is still marked Idle and the engine escalates: the emergency latch
\* is tripped.
C22_StopFailureEscalates ==
    StopWriteFailed => (emergencyStop /\ \A c \in PooferIds : ~isActive[c])

\* -------------------------------------------------- properties: the keypad
\* C28: the emergency key is a momentary trip only: pressing KEY_ESC trips the
\* latch and releasing it does not clear it, so fire commands stay rejected
\* until an explicit reset.
C28_EscReleaseKeepsLatch ==
    [][("KEY_ESC" \in held /\ "KEY_ESC" \notin held') =>
          (emergencyStop => emergencyStop')]_vars

\* ---------------------------------------------------- properties: shutdown
\* shutdown() is stopping the transports, has stopped them, or has been left
\* by an exception
TransportsStopping == shpc \in {"web", "static", "keypad", "raised"}

\* C29: graceful shutdown closes all channels before it stops the transports,
\* so no channel is Firing while or after the transports are stopped, and a
\* failure or hang while stopping a transport cannot leave a channel Firing.
C29_ChannelsClosedFirst ==
    TransportsStopping => \A c \in PooferIds : ~isActive[c] /\ ~pin[c]

\* ------------------------------------- properties: a failing playback task
\* the step in which the playback task ends with an exception
PlaybackFails == pTask # "failed" /\ pTask' = "failed"

\* C30: a failure of the playback loop (at loop start or while processing a
\* tick) results in every pin being closed: with the failure the engine
\* starts stop_all(), or no pin is energized.
C30_FailureClosesPins ==
    [][PlaybackFails => (eop'.op = "stop_all" \/ \A c \in PooferIds : ~pin'[c])]_vars
====
